---- MODULE Spec2Model ----
(***************************************************************************)
(* Model of the rule `onlyTypes` of eslint-plugin-type-only-files          *)
(* (src/src/rules.ts, lines 1-172).                                        *)
(*                                                                         *)
(* The host (ESLint) calls create(ctx) once for a file, and then walks     *)
(* the file's AST, calling the listeners create returned.  The rule has    *)
(* one listener, Program, which loops over program.body and calls          *)
(* ctx.report for the statements it bans.                                  *)
(*                                                                         *)
(* JavaScript values are tagged records: [t |-> "undefined"],              *)
(* [t |-> "boolean", v |-> TRUE], [t |-> "string", v |-> <<chars>>],       *)
(* [t |-> "regexp", ...].  A string is the sequence of its characters.     *)
(* AST nodes are records with the fields the rule reads.                   *)
(***************************************************************************)
EXTENDS Integers, Sequences, FiniteSets, TLC

VARIABLES
    phase,      \* "loaded" | "created" | "linted": how far the host is with the file
    ctx,        \* the rule context of the file: [options, filename]
    listeners,  \* the names of the listeners create returned
    banEnums,   \* closure of create: the destructured option
    allowed,    \* closure of create: the noun phrase of the messages
    body,       \* program.body of the AST the host walked
    reports     \* the calls of ctx.report, in order

vars == <<phase, ctx, listeners, banEnums, allowed, body, reports>>

----------------------------------------------------------------------------
(* Bounds *)

\* the longest program.body the host walks
MaxBody == 2

\* the longest specifier list of an import or export statement
MaxSpecs == 2

\* the longest program.body in the file-scope specification
MaxScopeBody == 1

----------------------------------------------------------------------------
(* JavaScript values *)

Undefined == [t |-> "undefined"]

Bool(b) == [t |-> "boolean", v |-> b]

Str(s) == [t |-> "string", v |-> s]

\* A regular expression of the subset used here: a sequence of atoms, each
\* the set of characters it accepts, optionally followed by atoms that may
\* be absent (x?), optionally anchored at the end of the input ($).
RegExpObj(atoms, opt, anchored, global) ==
    [t |-> "regexp", atoms |-> atoms, opt |-> opt, anchored |-> anchored, global |-> global]

\* ToBoolean: undefined, false and the empty string are falsy
Truthy(x) ==
    CASE x.t = "undefined" -> FALSE
      [] x.t = "boolean" -> x.v
      [] x.t = "string" -> Len(x.v) > 0
      [] OTHER -> TRUE

----------------------------------------------------------------------------
(* Characters and file names *)

Chars == {"a", "h", "x", "t", "y", "p", "e", "s", "T", "b", "k", ".", "/", "\\"}

TypesTs == <<"t", "y", "p", "e", "s", ".", "t", "s">>

\* a.types.ts
FileATypesTs == <<"a", ".">> \o TypesTs

\* h.ts
FileHTs == <<"h", ".", "t", "s">>

\* the file the host lints in the statement specification, which varies the
\* statements; the file-scope specification varies the names and the patterns
Files == {FileATypesTs}

\* a.types.tsx
FileATypesTsx == FileATypesTs \o <<"x">>

\* types.ts
FileTypesTs == TypesTs

\* s/types.ts
FileSTypesTs == <<"s", "/">> \o TypesTs

\* a.types.ts.bak
FileATypesTsBak == FileATypesTs \o <<".", "b", "a", "k">>

\* a.Types.ts
FileACapTypesTs == <<"a", ".", "T", "y", "p", "e", "s", ".", "t", "s">>

\* atypes.ts
FileAtypesTs == <<"a">> \o TypesTs

\* a\types.ts
FileABackslashTypesTs == <<"a", "\\">> \o TypesTs

\* the files the host lints in the file-scope specification
ScopeFiles ==
    {FileATypesTs, FileATypesTsx, FileHTs, FileTypesTs, FileSTypesTs, FileATypesTsBak,
     FileACapTypesTs, FileAtypesTs, FileABackslashTypesTs}

----------------------------------------------------------------------------
(* Regular expressions and String.prototype.match *)

Lit(c) == {c}

LitSeq(s) == [i \in 1..Len(s) |-> Lit(s[i])]

\* the default pattern with only the dot before `types`: /\.types\.tsx?$/g
DefaultFilePatternDotOnly ==
    RegExpObj(LitSeq(<<".">> \o TypesTs), <<Lit("x")>>, TRUE, TRUE)

\* rules.ts:164  /[.\\/]types\.tsx?$/g
DefaultFilePattern ==
    RegExpObj(<<{".", "\\", "/"}>> \o LitSeq(TypesTs), <<Lit("x")>>, TRUE, TRUE)

\* new RegExp(source) for sources made of literal characters, "." (any
\* character), "\c" (the character c) and a final "$".
RECURSIVE ParseAtoms(_, _)
ParseAtoms(src, i) ==
    IF i > Len(src) THEN <<>>
    ELSE IF src[i] = "\\" /\ i < Len(src) THEN <<Lit(src[i + 1])>> \o ParseAtoms(src, i + 2)
    ELSE IF src[i] = "$" /\ i = Len(src) THEN <<>>
    ELSE IF src[i] = "." THEN <<Chars>> \o ParseAtoms(src, i + 1)
    ELSE <<Lit(src[i])>> \o ParseAtoms(src, i + 1)

EndsWithAnchor(src) ==
    /\ Len(src) > 0
    /\ src[Len(src)] = "$"
    /\ ~(Len(src) > 1 /\ src[Len(src) - 1] = "\\")

NewRegExp(src) == RegExpObj(ParseAtoms(src, 1), <<>>, EndsWithAnchor(src), FALSE)

\* the optional atoms of re, from position pos of s on: each is taken or skipped
RECURSIVE MatchOpt(_, _, _, _)
MatchOpt(s, pos, opt, anchored) ==
    IF opt = <<>> THEN (~anchored \/ pos = Len(s) + 1)
    ELSE \/ (pos <= Len(s) /\ s[pos] \in Head(opt) /\ MatchOpt(s, pos + 1, Tail(opt), anchored))
         \/ MatchOpt(s, pos, Tail(opt), anchored)

\* re matches s starting at position start
MatchAt(s, re, start) ==
    /\ start + Len(re.atoms) - 1 <= Len(s)
    /\ \A k \in 1..Len(re.atoms) : s[start + k - 1] \in re.atoms[k]
    /\ MatchOpt(s, start + Len(re.atoms), re.opt, re.anchored)

\* s.match(re) is not null.  With the g flag match returns every match, without
\* it the first one; both are null exactly when re matches nowhere in s.
StringMatch(s, re) == \E start \in 1..(Len(s) + 1) : MatchAt(s, re, start)

\* rules.ts:162-172
getFileMatch(pattern) ==
    IF ~Truthy(pattern) THEN DefaultFilePattern
    ELSE IF pattern.t = "regexp" THEN pattern
    ELSE NewRegExp(pattern.v)

----------------------------------------------------------------------------
(* AST nodes *)

Kinds == {"type", "value"}

Null == [t |-> "null"]

\* the sequences over S of length at most n
SeqsUpTo(S, n) == UNION {[1..k -> S] : k \in 0..n}

ImportSpecifier(k) == [type |-> "ImportSpecifier", importKind |-> k]

\* a default or namespace specifier has no importKind
ImportDefaultSpecifier == [type |-> "ImportDefaultSpecifier"]

ImportNamespaceSpecifier == [type |-> "ImportNamespaceSpecifier"]

ExportSpecifier(k) == [type |-> "ExportSpecifier", exportKind |-> k]

\* The specifier lists the grammar gives an import with at most n specifiers:
\* import 'm' | import D | import * as N | import D, * as N
\* | import {..} | import D, {..}; the members of {..} have the kinds in ks.
ImportClauses(ks, n) ==
    LET named(m) == SeqsUpTo({ImportSpecifier(k) : k \in ks}, m)
    IN  named(n)
        \cup (IF n >= 1 THEN {<<ImportDefaultSpecifier>> \o r : r \in named(n - 1)}
                             \cup {<<ImportNamespaceSpecifier>>}
                        ELSE {})
        \cup (IF n >= 2 THEN {<<ImportDefaultSpecifier, ImportNamespaceSpecifier>>} ELSE {})

ImportDeclarations ==
    {[type |-> "ImportDeclaration", importKind |-> ik, specifiers |-> sp] :
        ik \in Kinds, sp \in ImportClauses(Kinds, MaxSpecs)}

ExportAllDeclarations == {[type |-> "ExportAllDeclaration", exportKind |-> k] : k \in Kinds}

ExportDefaultDeclarations ==
    {[type |-> "ExportDefaultDeclaration", declaration |-> [type |-> d]] :
        d \in {"Identifier", "ClassDeclaration"}}

ExportNamed(k, d, sp) ==
    [type |-> "ExportNamedDeclaration", exportKind |-> k, declaration |-> d, specifiers |-> sp]

\* An export with a declaration has no specifiers.  The parser gives exportKind
\* "type" to an exported type alias or interface and to `export declare ...`.
ExportNamedDeclarations ==
    {ExportNamed("value", [type |-> d], <<>>) : d \in {"TSEnumDeclaration", "VariableDeclaration"}}
    \cup {ExportNamed("value", Null, sp) : sp \in SeqsUpTo({ExportSpecifier(k) : k \in Kinds}, MaxSpecs)}
    \cup {ExportNamed("type", [type |-> d], <<>>) : d \in {"TSTypeAliasDeclaration", "TSEnumDeclaration"}}
    \cup {ExportNamed("type", Null, sp) : sp \in SeqsUpTo({ExportSpecifier(k) : k \in Kinds}, MaxSpecs)}

TypeDeclarations ==
    {[type |-> d] : d \in {"TSTypeAliasDeclaration", "TSInterfaceDeclaration", "TSEnumDeclaration"}}

\* the statement kinds the switch has no case for
OtherTypes == {"VariableDeclaration", "ExpressionStatement"}

OtherStatements == {[type |-> d] : d \in OtherTypes}

ProgramStatements ==
    ExportAllDeclarations \cup ExportDefaultDeclarations \cup ExportNamedDeclarations
    \cup ImportDeclarations \cup TypeDeclarations \cup OtherStatements

----------------------------------------------------------------------------
(* The rule: create and its Program listener (rules.ts:62-159) *)

\* ctx.options[0] || {} : a missing options object, like a missing property,
\* destructures to undefined
Options(opts) ==
    IF Len(opts) = 0 THEN [banEnums |-> Undefined, filePattern |-> Undefined] ELSE opts[1]

\* rules.ts:73-75
Allowed(ban) == IF Truthy(ban) THEN "types or interfaces" ELSE "types, interfaces, or enums"

\* declaration?.type
OptType(d) == IF "type" \in DOMAIN d THEN d.type ELSE "undefined"

\* rules.ts:91,99,113  ctx.report({node: programNode, messageId: 'exportTypes', data: {allowed}})
ReportExportTypes(i, allow) ==
    <<[node |-> i, messageId |-> "exportTypes", data |-> [allowed |-> allow]]>>

\* rules.ts:132
ReportImportTypes(i) == <<[node |-> i, messageId |-> "importTypes"]>>

\* rules.ts:148
ReportNoEnums(i) == <<[node |-> i, messageId |-> "noEnums"]>>

\* rules.ts:154
ReportNoNonTypes(i, allow, type) ==
    <<[node |-> i, messageId |-> "noNonTypes", data |-> [allowed |-> allow, type |-> type]]>>

\* isTypeExport without the test of the specifiers
isTypeExportNoSpecifiers(programNode, ban) ==
    \/ programNode.exportKind = "type"
    \/ (~Truthy(ban) /\ OptType(programNode.declaration) = "TSEnumDeclaration")

\* rules.ts:109-111
isTypeExport(programNode, ban) ==
    \/ programNode.exportKind = "type"
    \/ (~Truthy(ban) /\ OptType(programNode.declaration) = "TSEnumDeclaration")
    \/ \A k \in 1..Len(programNode.specifiers) :
          LET specifier == programNode.specifiers[k]
          IN  "exportKind" \in DOMAIN specifier /\ specifier.exportKind = "type"

\* typeImport with specifiers.some in place of specifiers.every
typeImportSome(programNode) ==
    \/ programNode.importKind = "type"
    \/ \E k \in 1..Len(programNode.specifiers) :
          LET specifier == programNode.specifiers[k]
          IN  "importKind" \in DOMAIN specifier /\ specifier.importKind = "type"

\* rules.ts:128-130
typeImport(programNode) ==
    \/ programNode.importKind = "type"
    \/ \A k \in 1..Len(programNode.specifiers) :
          LET specifier == programNode.specifiers[k]
          IN  "importKind" \in DOMAIN specifier /\ specifier.importKind = "type"

\* the export-all case with === in place of !==
CaseExportAllInverted(programNode, i, allow) ==
    IF programNode.exportKind = "type" THEN ReportExportTypes(i, allow) ELSE <<>>

\* rules.ts:85-94
CaseExportAll(programNode, i, allow) ==
    IF programNode.exportKind # "type" THEN ReportExportTypes(i, allow) ELSE <<>>

\* the default export reported only when its payload is a declaration
CaseExportDefaultDeclarationsOnly(programNode, i, allow) ==
    IF programNode.declaration.type # "Identifier" THEN ReportExportTypes(i, allow) ELSE <<>>

\* rules.ts:96-100
CaseExportDefault(programNode, i, allow) == ReportExportTypes(i, allow)

\* rules.ts:102-116
CaseExportNamed(programNode, i, ban, allow) ==
    IF ~isTypeExport(programNode, ban) THEN ReportExportTypes(i, allow) ELSE <<>>

\* rules.ts:121-135
CaseImport(programNode, i) ==
    IF ~typeImport(programNode) THEN ReportImportTypes(i) ELSE <<>>

\* rules.ts:140-144
CaseTypeDeclaration(programNode, i) == <<>>

\* the enum case with the option read as allowEnums
CaseEnumInverted(programNode, i, ban) == IF ~Truthy(ban) THEN ReportNoEnums(i) ELSE <<>>

\* rules.ts:146-149
CaseEnum(programNode, i, ban) == IF Truthy(ban) THEN ReportNoEnums(i) ELSE <<>>

\* the default case reporting the Program node (node 0) and its kind
CaseDefaultProgramNode(programNode, i, allow) == ReportNoNonTypes(0, allow, "Program")

\* rules.ts:153-154
CaseDefault(programNode, i, allow) == ReportNoNonTypes(i, allow, programNode.type)

\* the switch without the case label of TSInterfaceDeclaration
SwitchNoInterfaceCase(programNode, i, ban, allow) ==
    CASE programNode.type = "ExportAllDeclaration" -> CaseExportAll(programNode, i, allow)
      [] programNode.type = "ExportDefaultDeclaration" -> CaseExportDefault(programNode, i, allow)
      [] programNode.type = "ExportNamedDeclaration" -> CaseExportNamed(programNode, i, ban, allow)
      [] programNode.type = "ImportDeclaration" -> CaseImport(programNode, i)
      [] programNode.type = "TSTypeAliasDeclaration" -> CaseTypeDeclaration(programNode, i)
      [] programNode.type = "TSEnumDeclaration" -> CaseEnum(programNode, i, ban)
      [] OTHER -> CaseDefault(programNode, i, allow)

\* rules.ts:81-155: the reports of one turn of the loop, for body[i] = programNode
Switch(programNode, i, ban, allow) ==
    CASE programNode.type = "ExportAllDeclaration" -> CaseExportAll(programNode, i, allow)
      [] programNode.type = "ExportDefaultDeclaration" -> CaseExportDefault(programNode, i, allow)
      [] programNode.type = "ExportNamedDeclaration" -> CaseExportNamed(programNode, i, ban, allow)
      [] programNode.type = "ImportDeclaration" -> CaseImport(programNode, i)
      [] programNode.type \in {"TSTypeAliasDeclaration", "TSInterfaceDeclaration"} ->
            CaseTypeDeclaration(programNode, i)
      [] programNode.type = "TSEnumDeclaration" -> CaseEnum(programNode, i, ban)
      [] OTHER -> CaseDefault(programNode, i, allow)

\* the loop with a return after the report, in place of the break
RECURSIVE ProgramLoopReturns(_, _, _, _)
ProgramLoopReturns(programBody, i, ban, allow) ==
    IF i > Len(programBody) THEN <<>>
    ELSE LET r == Switch(programBody[i], i, ban, allow)
         IN  IF r # <<>> THEN r ELSE ProgramLoopReturns(programBody, i + 1, ban, allow)

\* rules.ts:80-156: for (const programNode of program.body), from body[i] on
RECURSIVE ProgramLoop(_, _, _, _)
ProgramLoop(programBody, i, ban, allow) ==
    IF i > Len(programBody) THEN <<>>
    ELSE Switch(programBody[i], i, ban, allow) \o ProgramLoop(programBody, i + 1, ban, allow)

\* the bail-out test without its negation
BailOutInverted(filename, fileMatch) == StringMatch(filename, fileMatch)

\* rules.ts:67  !ctx.getFilename().match(fileMatch)
BailOut(filename, fileMatch) == ~StringMatch(filename, fileMatch)

\* rules.ts:62-77: create(ctx)
Create(contexts) ==
    /\ phase = "loaded"
    /\ \E c \in contexts :
          LET o == Options(c.options)
              fileMatch == getFileMatch(o.filePattern)
          IN  /\ ctx' = c
              /\ banEnums' = o.banEnums
              /\ IF BailOut(c.filename, fileMatch)
                    THEN /\ listeners' = {}
                         /\ allowed' = Undefined
                    ELSE /\ listeners' = {"Program"}
                         /\ allowed' = Str(Allowed(o.banEnums))
    /\ phase' = "created"
    /\ UNCHANGED <<body, reports>>

\* The host walks the AST of the file and calls the listener of the Program
\* node, if create returned one (rules.ts:79-157).
Traverse(bodies) ==
    /\ phase = "created"
    /\ \E b \in bodies :
          /\ body' = b
          /\ reports' = IF "Program" \in listeners
                           THEN reports \o ProgramLoop(b, 1, banEnums, allowed.v)
                           ELSE reports
    /\ phase' = "linted"
    /\ UNCHANGED <<ctx, listeners, banEnums, allowed>>

----------------------------------------------------------------------------
(* Messages (rules.ts:29-34, 58) *)

\* a message template is a sequence of literal texts and {{ key }} placeholders
Text(s) == [lit |-> s]

Placeholder(k) == [key |-> k]

\* the grave accent of rules.ts:31, which a TLA+ string cannot hold
Backtick == "\\x60"

\* the messages without their final periods
ERROR_MESSAGES_NoPeriod ==
    [exportTypes |-> <<Text("Type-only files should only export "), Placeholder("allowed")>>,
     importTypes |-> <<Text("Type-only files should only use type imports (e.g. "), Text(Backtick),
                      Text("import type { }"), Text(Backtick), Text(")")>>,
     noEnums |-> <<Text("Enums are not allowed by your type-only-files config (option: banEnums=true)")>>,
     noNonTypes |-> <<Text("Type-only files should only declare "), Placeholder("allowed"),
                      Text(". Found a "), Placeholder("type")>>]

\* rules.ts:29-34
ERROR_MESSAGES ==
    [exportTypes |-> <<Text("Type-only files should only export "), Placeholder("allowed"), Text(".")>>,
     importTypes |-> <<Text("Type-only files should only use type imports (e.g. "), Text(Backtick),
                      Text("import type { }"), Text(Backtick), Text(").")>>,
     noEnums |-> <<Text("Enums are not allowed by your type-only-files config (option: banEnums=true).")>>,
     noNonTypes |-> <<Text("Type-only files should only declare "), Placeholder("allowed"),
                      Text(". Found a "), Placeholder("type"), Text(".")>>]

\* The host renders meta.messages[messageId] with the data of the report: each
\* {{ key }} becomes data[key], and stays as written when data has no such key.
RECURSIVE Interpolate(_, _)
Interpolate(template, data) ==
    IF template = <<>> THEN ""
    ELSE LET seg == Head(template)
             text == IF "lit" \in DOMAIN seg THEN seg.lit
                     ELSE IF seg.key \in DOMAIN data THEN data[seg.key]
                     ELSE "{{ " \o seg.key \o " }}"
         IN  text \o Interpolate(Tail(template), data)

\* the message of a report
Message(r) ==
    Interpolate(ERROR_MESSAGES[r.messageId], IF "data" \in DOMAIN r THEN r.data ELSE <<>>)

----------------------------------------------------------------------------
(* Specifications *)

BanEnumsValues == {Undefined, Bool(FALSE), Bool(TRUE)}

OptionsObjects(patterns) ==
    {[banEnums |-> b, filePattern |-> p] : b \in BanEnumsValues, p \in patterns}

\* ctx.options is empty or holds one options object
OptionsArrays(patterns) == {<<>>} \cup {<<o>> : o \in OptionsObjects(patterns)}

Contexts ==
    {[options |-> o, filename |-> f] : o \in OptionsArrays({Undefined}), f \in Files}

Bodies == SeqsUpTo(ProgramStatements, MaxBody)

NoContext == [options |-> <<>>, filename |-> <<>>]

Init ==
    /\ phase = "loaded"
    /\ ctx = NoContext
    /\ listeners = {}
    /\ banEnums = Undefined
    /\ allowed = Undefined
    /\ body = <<>>
    /\ reports = <<>>

Next == Create(Contexts) \/ Traverse(Bodies)

Spec == Init /\ [][Next]_vars

\* the filePattern options of the file-scope specification: none, "", "h",
\* "\.ts$", /types/ and /h\.ts$/g
ScopePatterns ==
    {Undefined, Str(<<>>), Str(<<"h">>), Str(<<"\\", ".", "t", "s", "$">>),
     RegExpObj(LitSeq(<<"t", "y", "p", "e", "s">>), <<>>, FALSE, FALSE),
     RegExpObj(LitSeq(FileHTs), <<>>, TRUE, TRUE)}

ScopeContexts ==
    {[options |-> o, filename |-> f] : o \in OptionsArrays(ScopePatterns), f \in ScopeFiles}

ScopeBodies == SeqsUpTo(ProgramStatements, MaxScopeBody)

NextScope == Create(ScopeContexts) \/ Traverse(ScopeBodies)

\* the file-scope specification: many file names and patterns, short bodies
SpecScope == Init /\ [][NextScope]_vars

----------------------------------------------------------------------------
(* What the claims speak of *)

\* the options of the file being linted
Opts == Options(ctx.options)

\* the pattern a configuration asks for: the supplied one, or the default one
\* when none is supplied
EffectivePattern(p) ==
    IF p.t = "undefined" THEN DefaultFilePattern
    ELSE IF p.t = "regexp" THEN p
    ELSE NewRegExp(p.v)

\* the path of the file matches the effective pattern
InScope == StringMatch(ctx.filename, EffectivePattern(Opts.filePattern))

\* the host has walked an in-scope file
Linted == phase = "linted" /\ InScope

\* the diagnostics reported for the statement body[i]
ReportsFor(i) == SelectSeq(reports, LAMBDA r : r.node = i)

\* the noun phrase the configuration of the file asks for
AllowedPhrase == IF Opts.banEnums = Bool(TRUE) THEN "types or interfaces" ELSE "types, interfaces, or enums"

----------------------------------------------------------------------------
(* Claims *)

\* C1: for a file whose path does not match the effective file pattern, create
\* returns no listener and, whatever statements the host walks and whatever
\* banEnums is, no diagnostic is reported.
C1_NoDiagnosticsOutOfScope ==
    (phase # "loaded" /\ ~InScope) => (listeners = {} /\ reports = <<>>)

\* an out-of-scope file whose body holds a variable declaration has been walked
C1_Witness ==
    /\ phase = "linted"
    /\ ~InScope
    /\ Opts.filePattern # Undefined
    /\ \E i \in 1..Len(body) : body[i].type = "VariableDeclaration"
    /\ reports = <<>>

\* C2: in an in-scope file, an ExportNamedDeclaration with exportKind "value",
\* no specifiers and a declaration that is not an enum (export const x = 1)
\* gets exactly one exportTypes diagnostic, for either value of banEnums.
C2_ValueExportWithoutSpecifiersIsBanned ==
    Linted =>
        \A i \in 1..Len(body) :
            (/\ body[i].type = "ExportNamedDeclaration"
             /\ body[i].exportKind = "value"
             /\ body[i].specifiers = <<>>
             /\ OptType(body[i].declaration) # "TSEnumDeclaration")
            => ReportsFor(i) = ReportExportTypes(i, AllowedPhrase)

\* C3: in an in-scope file, an ExportNamedDeclaration with exportKind "value"
\* that wraps an enum declaration (export enum E {}) gets no diagnostic when
\* banEnums is not true, and exactly one exportTypes diagnostic when it is.
C3_ExportedEnumFollowsBanEnums ==
    Linted =>
        \A i \in 1..Len(body) :
            (/\ body[i].type = "ExportNamedDeclaration"
             /\ body[i].exportKind = "value"
             /\ OptType(body[i].declaration) = "TSEnumDeclaration")
            => ReportsFor(i) = IF Opts.banEnums = Bool(TRUE)
                                  THEN ReportExportTypes(i, AllowedPhrase)
                                  ELSE <<>>

\* C4: in an in-scope file, an ImportDeclaration with importKind "value" and no
\* specifiers (import 'sideEffect') gets exactly one importTypes diagnostic,
\* for any configuration.
C4_SideEffectImportIsBanned ==
    Linted =>
        \A i \in 1..Len(body) :
            (/\ body[i].type = "ImportDeclaration"
             /\ body[i].importKind = "value"
             /\ body[i].specifiers = <<>>)
            => ReportsFor(i) = ReportImportTypes(i)

\* every member of a specifier list is an import specifier tagged `type`
AllTypeImports(sp) == \A k \in 1..Len(sp) : sp[k] = ImportSpecifier("type")

\* C5: in an in-scope file, an ImportDeclaration with at least one specifier
\* gets no diagnostic if importKind is "type" or every specifier is tagged
\* `type` (a default or namespace specifier counts as a value), and exactly one
\* importTypes diagnostic otherwise, whatever banEnums is.
C5_ImportWithSpecifiers ==
    Linted =>
        \A i \in 1..Len(body) :
            (body[i].type = "ImportDeclaration" /\ body[i].specifiers # <<>>)
            => ReportsFor(i) = IF body[i].importKind = "type" \/ AllTypeImports(body[i].specifiers)
                                  THEN <<>>
                                  ELSE ReportImportTypes(i)

\* imports with all members tagged `type`, with mixed members and with a
\* default specifier have been judged, with enums banned
C5_Witness ==
    /\ Linted
    /\ Opts.banEnums = Bool(TRUE)
    /\ Len(body) = 2
    /\ body[1] = [type |-> "ImportDeclaration", importKind |-> "value",
                  specifiers |-> <<ImportSpecifier("type"), ImportSpecifier("type")>>]
    /\ body[2] = [type |-> "ImportDeclaration", importKind |-> "value",
                  specifiers |-> <<ImportSpecifier("type"), ImportSpecifier("value")>>]
    /\ reports = ReportImportTypes(2)

\* every member of a specifier list is an export specifier tagged `type`
AllTypeExports(sp) == \A k \in 1..Len(sp) : sp[k] = ExportSpecifier("type")

\* C6: in an in-scope file, an ExportNamedDeclaration with no declaration and at
\* least one specifier gets no diagnostic if exportKind is "type" or every
\* specifier is tagged `type`, and exactly one exportTypes diagnostic otherwise,
\* for either value of banEnums.
C6_ExportWithSpecifiers ==
    Linted =>
        \A i \in 1..Len(body) :
            (/\ body[i].type = "ExportNamedDeclaration"
             /\ body[i].declaration = Null
             /\ body[i].specifiers # <<>>)
            => ReportsFor(i) = IF body[i].exportKind = "type" \/ AllTypeExports(body[i].specifiers)
                                  THEN <<>>
                                  ELSE ReportExportTypes(i, AllowedPhrase)

\* export { A } is reported with enums permitted, after an export { type A }
\* that is not
C6_Witness ==
    /\ Linted
    /\ Opts.banEnums = Bool(FALSE)
    /\ Len(body) = 2
    /\ body[1] = ExportNamed("value", Null, <<ExportSpecifier("type")>>)
    /\ body[2] = ExportNamed("value", Null, <<ExportSpecifier("value")>>)
    /\ reports = ReportExportTypes(2, "types, interfaces, or enums")

\* C7: in an in-scope file, a top-level enum declaration gets no diagnostic
\* when banEnums is false or not supplied, and exactly one noEnums diagnostic
\* when banEnums is true.
C7_EnumFollowsBanEnums ==
    Linted =>
        \A i \in 1..Len(body) :
            body[i].type = "TSEnumDeclaration"
            => ReportsFor(i) = IF Opts.banEnums = Bool(TRUE) THEN ReportNoEnums(i) ELSE <<>>

\* an enum has been reported with banEnums true
C7_Witness ==
    /\ Linted
    /\ Opts.banEnums = Bool(TRUE)
    /\ body = <<[type |-> "TSEnumDeclaration"]>>
    /\ reports = ReportNoEnums(1)

\* C8: in an in-scope file, a top-level type alias or interface declaration
\* gets no diagnostic, for every configuration.
C8_TypeDeclarationsAllowed ==
    Linted =>
        \A i \in 1..Len(body) :
            body[i].type \in {"TSTypeAliasDeclaration", "TSInterfaceDeclaration"}
            => ReportsFor(i) = <<>>

\* an interface has been passed over between two reported statements
C8_Witness ==
    /\ Linted
    /\ Len(body) = 2
    /\ body[1].type = "TSInterfaceDeclaration"
    /\ body[2].type = "ExpressionStatement"
    /\ Len(reports) = 1
    /\ reports[1].node = 2

\* the statement kinds the rule names
NamedTypes ==
    {"TSTypeAliasDeclaration", "TSInterfaceDeclaration", "TSEnumDeclaration", "ImportDeclaration",
     "ExportAllDeclaration", "ExportDefaultDeclaration", "ExportNamedDeclaration"}

\* C9: in an in-scope file, a top-level statement of any other kind gets
\* exactly one noNonTypes diagnostic, which carries the kind name of that
\* statement as `type`, for any configuration.
C9_OtherStatementsBanned ==
    Linted =>
        \A i \in 1..Len(body) :
            body[i].type \notin NamedTypes
            => ReportsFor(i) =
                  <<[node |-> i, messageId |-> "noNonTypes",
                     data |-> [allowed |-> AllowedPhrase, type |-> body[i].type]]>>

\* two statements of different other kinds have each been reported
C9_Witness ==
    /\ Linted
    /\ Len(body) = 2
    /\ body[1].type = "VariableDeclaration"
    /\ body[2].type = "ExpressionStatement"
    /\ Len(reports) = 2
    /\ reports[1].data.type = "VariableDeclaration"
    /\ reports[2].data.type = "ExpressionStatement"

\* C10: in an in-scope file, a top-level export-default declaration gets
\* exactly one exportTypes diagnostic, whatever its payload and whatever
\* banEnums is.
C10_ExportDefaultBanned ==
    Linted =>
        \A i \in 1..Len(body) :
            body[i].type = "ExportDefaultDeclaration"
            => ReportsFor(i) = ReportExportTypes(i, AllowedPhrase)

\* export default of an identifier has been reported, with enums banned
C10_Witness ==
    /\ Linted
    /\ Opts.banEnums = Bool(TRUE)
    /\ Len(body) = 1
    /\ body[1].type = "ExportDefaultDeclaration"
    /\ body[1].declaration.type = "Identifier"
    /\ reports = ReportExportTypes(1, "types or interfaces")

\* C11: in an in-scope file, a top-level export-all declaration gets no
\* diagnostic if exportKind is "type" and exactly one exportTypes diagnostic
\* otherwise, whatever banEnums is.
C11_ExportAllFollowsExportKind ==
    Linted =>
        \A i \in 1..Len(body) :
            body[i].type = "ExportAllDeclaration"
            => ReportsFor(i) = IF body[i].exportKind = "type"
                                  THEN <<>>
                                  ELSE ReportExportTypes(i, AllowedPhrase)

\* with enums banned, export type * has been passed over and export * reported
C11_Witness ==
    /\ Linted
    /\ Opts.banEnums = Bool(TRUE)
    /\ body = <<[type |-> "ExportAllDeclaration", exportKind |-> "type"],
                [type |-> "ExportAllDeclaration", exportKind |-> "value"]>>
    /\ reports = ReportExportTypes(2, "types or interfaces")

\* s ends in suffix
EndsWith(s, suffix) ==
    /\ Len(s) >= Len(suffix)
    /\ SubSeq(s, Len(s) - Len(suffix) + 1, Len(s)) = suffix

\* no filePattern is configured
NoFilePattern == phase # "loaded" /\ Opts.filePattern = Undefined

\* C12 as stated: with no filePattern configured, a file is in scope exactly
\* when its path ends in .types.ts or .types.tsx, and an out-of-scope file
\* yields no diagnostics.
C12_DefaultScopeIsDotTypesTs ==
    NoFilePattern =>
        /\ listeners = {"Program"} <=>
              \/ EndsWith(ctx.filename, <<".">> \o TypesTs)
              \/ EndsWith(ctx.filename, <<".">> \o TypesTs \o <<"x">>)
        /\ listeners = {} => reports = <<>>

\* C12, amended: with no filePattern configured, a file is in scope exactly
\* when its path ends in types.ts or types.tsx right after a ".", a "/" or a
\* "\" (case-sensitively), and an out-of-scope file yields no diagnostics.
C12_DefaultScope ==
    NoFilePattern =>
        /\ listeners \in {{}, {"Program"}}
        /\ listeners = {"Program"} <=>
              \E sep \in {".", "/", "\\"} :
                  \/ EndsWith(ctx.filename, <<sep>> \o TypesTs)
                  \/ EndsWith(ctx.filename, <<sep>> \o TypesTs \o <<"x">>)
        /\ listeners = {} => reports = <<>>

\* s/types.ts has been linted under the default pattern and a statement of it
\* reported
C12_Witness ==
    /\ phase = "linted"
    /\ Opts.filePattern = Undefined
    /\ ctx.filename = FileSTypesTs
    /\ listeners = {"Program"}
    /\ reports # <<>>

\* C13: whenever a filePattern is supplied, as a RegExp or as any source
\* string, the empty one included, the file is in scope exactly when the
\* supplied pattern matches its path.
C13_SuppliedPatternDecides ==
    (phase # "loaded" /\ Opts.filePattern # Undefined) =>
        (listeners = {"Program"} <=>
            StringMatch(ctx.filename,
                        IF Opts.filePattern.t = "regexp" THEN Opts.filePattern
                        ELSE NewRegExp(Opts.filePattern.v)))

\* the importTypes message of the catalog
ImportTypesText ==
    "Type-only files should only use type imports (e.g. " \o Backtick \o "import type { }"
        \o Backtick \o ")."

\* C14 as stated: every diagnostic renders to the catalog text of its key,
\* with "types or interfaces" for {allowed} when banEnums is true and "types,
\* interfaces, or enums" otherwise; a banned enum reads "Enums are not allowed
\* by your type-only-files configuration."
C14_MessagesAsInCatalog ==
    Linted =>
        \A k \in 1..Len(reports) :
            LET r == reports[k]
            IN  Message(r) =
                  CASE r.messageId = "exportTypes" ->
                          "Type-only files should only export " \o AllowedPhrase \o "."
                    [] r.messageId = "importTypes" ->
                          ImportTypesText
                    [] r.messageId = "noEnums" ->
                          "Enums are not allowed by your type-only-files configuration."
                    [] r.messageId = "noNonTypes" ->
                          "Type-only files should only declare " \o AllowedPhrase
                              \o ". Found a " \o body[r.node].type \o "."

\* C14, amended: as stated, except that a banned enum reads "Enums are not
\* allowed by your type-only-files config (option: banEnums=true)."; a banned
\* export under the default configuration reads "Type-only files should only
\* export types, interfaces, or enums."
C14_Messages ==
    Linted =>
        \A k \in 1..Len(reports) :
            LET r == reports[k]
            IN  /\ Message(r) =
                      CASE r.messageId = "exportTypes" ->
                              "Type-only files should only export " \o AllowedPhrase \o "."
                        [] r.messageId = "importTypes" ->
                              ImportTypesText
                        [] r.messageId = "noEnums" ->
                              "Enums are not allowed by your type-only-files config (option: banEnums=true)."
                        [] r.messageId = "noNonTypes" ->
                              "Type-only files should only declare " \o AllowedPhrase
                                  \o ". Found a " \o body[r.node].type \o "."
                /\ (r.messageId = "exportTypes" /\ Opts.banEnums # Bool(TRUE))
                      => Message(r) = "Type-only files should only export types, interfaces, or enums."
                /\ (r.messageId = "exportTypes" /\ Opts.banEnums = Bool(TRUE))
                      => Message(r) = "Type-only files should only export types or interfaces."

\* a banned enum and a banned variable declaration have been reported and
\* rendered
C14_Witness ==
    /\ Linted
    /\ Opts.banEnums = Bool(TRUE)
    /\ body = <<[type |-> "TSEnumDeclaration"], [type |-> "VariableDeclaration"]>>
    /\ Len(reports) = 2
    /\ Message(reports[1]) = "Enums are not allowed by your type-only-files config (option: banEnums=true)."
    /\ Message(reports[2]) = "Type-only files should only declare types or interfaces. Found a VariableDeclaration."

\* the diagnostics of a file that holds the statement alone, under the
\* configuration of the file being linted, attached to statement i
AloneResult(statement, i) ==
    LET alone == ProgramLoop(<<statement>>, 1, Opts.banEnums, AllowedPhrase)
    IN  [k \in 1..Len(alone) |-> [alone[k] EXCEPT !.node = i]]

\* C15: after one pass over an in-scope file, every diagnostic is attached to
\* a statement of the body, the diagnostics come in source order with at most
\* one for a statement, and the diagnostics of each statement are those it
\* gets when it is judged alone under the same configuration, whatever comes
\* before or after it and whether or not earlier statements were reported.
C15_InOrderConcatenation ==
    Linted =>
        /\ \A k \in 1..Len(reports) : reports[k].node \in 1..Len(body)
        /\ \A j, k \in 1..Len(reports) : j < k => reports[j].node < reports[k].node
        /\ \A i \in 1..Len(body) :
              /\ Len(ReportsFor(i)) <= 1
              /\ ReportsFor(i) = AloneResult(body[i], i)

\* an import has been reported after the export default before it was
C15_Witness ==
    /\ Linted
    /\ Len(body) = 2
    /\ body[1].type = "ExportDefaultDeclaration"
    /\ body[2] = [type |-> "ImportDeclaration", importKind |-> "value",
                  specifiers |-> <<ImportNamespaceSpecifier>>]
    /\ Len(reports) = 2
    /\ reports[1].node = 1 /\ reports[1].messageId = "exportTypes"
    /\ reports[2].node = 2 /\ reports[2].messageId = "importTypes"

====
